---- MODULE Spec2Model ----
(***************************************************************************)
(* Intent router (app/brain/router.py), natural-language-to-SQL pipeline   *)
(* (app/llm/router.py) and the CRM branch of the "Go" handler              *)
(* (streamlit_app.py); two requests served by one process (SpecPair); the  *)
(* session store (app/sessions/store.py) over app/db/connector.py          *)
(* (SpecStore).                                                            *)
(*                                                                         *)
(* A text (a Python str) is a sequence of atoms.  An atom is a run of      *)
(* characters of one class: a run of letters ("select", "LIMIT", "x"), one *)
(* digit ("5"), the underscore ("_"), one whitespace character (" ", tab,  *)
(* newline), one punctuation character (";", "("), or the code fence       *)
(* (three backquotes, written "<fence>").  The atoms are chosen so that a  *)
(* text has one decomposition and no word the code looks for lies inside   *)
(* an atom or across two atoms;                                            *)
(* hence Python's substring test is the test for a contiguous subsequence  *)
(* of atoms, \b is a change of class between neighbours, and concatenation *)
(* is \o.  "last_update " is <<"last","_","update"," ">>.                  *)
(***************************************************************************)
EXTENDS Integers, Sequences, FiniteSets, TLC

VARIABLES
    pc,        \* position of the running call / handler
    question,  \* effective_q, the question text; the input text of a unit call
    ollama,    \* TRUE iff "import ollama" succeeds
    openai,    \* "nokey" | "noclient" (key set, import or constructor fails) | "ok"
    route,     \* result of classify_intent
    limit,     \* the "Max rows" slider value, a digit text
    sql,       \* the candidate query held by the handler; the input of a unit call
    e1,        \* str(e1): the message of the first execution failure
    executed,  \* the statements handed to pd.read_sql_query, in order
    calls,     \* the completion requests issued, in order, with their outcomes
    ret,       \* how the last call ended: [kind: none | return | raise, fn, val]
    shown,     \* what the handler displays: [kind: none | rows | error | uncaught, val]
    db,        \* the SQLite file behind get_conn: the session tables (session store only)
    session_name  \* the name argument of each caller's get_or_create_session

vars == <<pc, question, ollama, openai, limit, route, sql, e1, executed, calls, ret, shown,
          db, session_name>>

----------------------------------------------------------------------------
(* Character classes and Python str / re primitives on texts.              *)

SpaceAtoms == {" ", "\t", "\n"}
DigitAtoms == {"0", "1", "2", "3", "4", "5", "6", "7", "8", "9"}
PunctAtoms == {";", "(", ")", ",", "'", "-", "&", "*", "=", ".", "|", "<fence>"}

IsSpace(a) == a \in SpaceAtoms
IsDigit(a) == a \in DigitAtoms
\* \w of Python's re: letters, digits and the underscore
IsWord(a) == a \notin SpaceAtoms /\ a \notin PunctAtoms
\* [a-zA-Z]
IsLetters(a) == IsWord(a) /\ ~IsDigit(a) /\ a # "_"

Min(S) == CHOOSE m \in S : \A n \in S : m <= n
Max(S) == CHOOSE m \in S : \A n \in S : m >= n

\* str.lower() on one atom: the upper-case atoms of the model
LowerAtom(a) ==
    CASE a = "SELECT" -> "select"
      [] a = "Select" -> "select"
      [] a = "TOP" -> "top"
      [] a = "LIMIT" -> "limit"
      [] a = "Limit" -> "limit"
      [] a = "ILIKE" -> "ilike"
      [] a = "LIKE" -> "like"
      [] a = "TRUE" -> "true"
      [] a = "FALSE" -> "false"
      [] a = "DROP" -> "drop"
      [] a = "UPDATE" -> "update"
      [] a = "FILING" -> "filing"
      [] a = "NEW" -> "new"
      [] a = "S" -> "s"
      [] a = "K" -> "k"
      [] a = "OFFTOPIC" -> "offtopic"
      [] OTHER -> a

Lower(s) == [i \in 1..Len(s) |-> LowerAtom(s[i])]

\* str.strip()
Strip(s) ==
    LET ns == {i \in 1..Len(s) : ~IsSpace(s[i])}
    IN  IF ns = {} THEN <<>> ELSE SubSeq(s, Min(ns), Max(ns))

\* str.rstrip(";")
RStripSemi(s) ==
    LET ns == {i \in 1..Len(s) : s[i] # ";"}
    IN  IF ns = {} THEN <<>> ELSE SubSeq(s, 1, Max(ns))

\* p in s
Contains(s, p) == \E i \in 1..(Len(s) - Len(p) + 1) : SubSeq(s, i, i + Len(p) - 1) = p

\* s.startswith(p)
StartsWith(s, p) == Len(s) >= Len(p) /\ SubSeq(s, 1, Len(p)) = p

\* the character classes \s, \d and [a-zA-Z] of the patterns
InClass(a, cls) ==
    CASE cls = "s" -> IsSpace(a)
      [] cls = "d" -> IsDigit(a)
      [] cls = "a" -> IsLetters(a)

\* the last index of the maximal run of atoms of class cls that starts at i
\* (i - 1 when s[i] is not of that class or i is past the end)
RunEnd(s, i, cls) ==
    LET stop == {k \in i..Len(s) : ~InClass(s[k], cls)}
    IN  IF stop = {} THEN Len(s) ELSE Min(stop) - 1

\* a pattern element cls+ tried at index i: the index after the run, 0 when
\* the element does not match there (or an earlier element failed: i = 0)
MatchRun(s, i, cls) ==
    IF i = 0 \/ i > Len(s) THEN 0
    ELSE IF ~InClass(s[i], cls) THEN 0 ELSE RunEnd(s, i, cls) + 1

\* a letter word w (IGNORECASE) tried at index i: the index after it, or 0
MatchWord(s, i, w) ==
    IF i = 0 \/ i > Len(s) THEN 0
    ELSE IF LowerAtom(s[i]) # w THEN 0 ELSE i + 1

\* the atoms of s at the indices of keep, in order, from index i on
RECURSIVE PickFrom(_, _, _)
PickFrom(s, keep, i) ==
    IF i > Len(s) THEN <<>>
    ELSE (IF i \in keep THEN <<s[i]>> ELSE <<>>) \o PickFrom(s, keep, i + 1)

Pick(s, keep) == PickFrom(s, keep, 1)

\* \b at the left / right of atom i
BoundaryLeft(s, i) == i = 1 \/ ~IsWord(s[i - 1])
BoundaryRight(s, i) == i = Len(s) \/ ~IsWord(s[i + 1])

\* re.sub(r"\bW\b", r, s, flags=re.IGNORECASE) for a letter word W
SubWord(s, w, r) ==
    [i \in 1..Len(s) |->
        IF LowerAtom(s[i]) = w /\ BoundaryLeft(s, i) /\ BoundaryRight(s, i)
        THEN r ELSE s[i]]

\* the \b that ends a match whose last atom is e - 1 (e = 0: no match)
EndsAtBoundary(s, e) ==
    IF e = 0 THEN 0 ELSE IF BoundaryRight(s, e - 1) THEN e - 1 ELSE 0

\* r"\blimit\s+\d+\b" (IGNORECASE) matched at atom i: the index of the last
\* atom of the match, 0 when there is no match at i
LimitEnd(s, i) ==
    IF ~BoundaryLeft(s, i) THEN 0
    ELSE EndsAtBoundary(s, MatchRun(s, MatchRun(s, MatchWord(s, i, "limit"), "s"), "d"))

\* re.finditer(r"\blimit\s+\d+\b", s): the start indices of the matches
\* (two matches never overlap: a match holds one "limit" atom, its first)
LimitStarts(s) == {i \in 1..Len(s) : LimitEnd(s, i) > 0}

\* re.search(r"\blimit\s+\d+\b", s, flags=re.IGNORECASE)
HasLimit(s) == LimitStarts(s) # {}

\* re.sub(r"\blimit\s+\d+\b", "", s, flags=re.IGNORECASE)
RemoveLimits(s) ==
    LET st == LimitStarts(s)
    IN  Pick(s, {k \in 1..Len(s) : ~\E i \in st : i <= k /\ k <= LimitEnd(s, i)})

\* re.sub(r";\s*$", "", s): a ";" followed by whitespace only up to the end
StripFinalSemi(s) ==
    LET c == {i \in 1..Len(s) : s[i] = ";" /\ RunEnd(s, i + 1, "s") = Len(s)}
    IN  IF c = {} THEN s ELSE SubSeq(s, 1, Min(c) - 1)

----------------------------------------------------------------------------
(* app/llm/router.py: the pure helpers                                     *)

forbidden ==
    {<<"insert", " ">>, <<"update", " ">>, <<"delete", " ">>, <<"drop", " ">>,
     <<"alter", " ">>, <<"create", " ">>, <<"truncate", " ">>, <<"replace", " ">>,
     <<"attach", " ">>, <<"pragma", " ">>, <<"vacuum", " ">>, <<"reindex", " ">>}

_is_read_only(q) ==
    LET s == Lower(Strip(q))
    IN  StartsWith(s, <<"select">>) /\ ~\E tok \in forbidden : Contains(s, tok)

default_limit == <<"1", "0", "0", "0">>

\* q with " LIMIT n" appended unless a LIMIT clause is found in it
LimitAppended(q, n) ==
    IF ~HasLimit(q) THEN q \o <<" ", "LIMIT", " ">> \o n ELSE q

_ensure_limit(q) == LimitAppended(q, default_limit)

\* re.sub(r"^<fence>[a-zA-Z]*|<fence>$", "", s, flags=re.MULTILINE): the
\* indices removed
FenceCut(s) ==
    LET opens == {i \in 1..Len(s) : s[i] = "<fence>" /\ (i = 1 \/ s[i - 1] = "\n")}
        closes == {i \in 1..Len(s) : s[i] = "<fence>" /\ (i = Len(s) \/ s[i + 1] = "\n")}
    IN  {k \in 1..Len(s) :
            \/ k \in opens \cup closes
            \/ \E i \in opens : i < k /\ k <= RunEnd(s, i + 1, "a")}

_strip_fences(s) ==
    RStripSemi(Strip(Pick(s, (1..Len(s)) \ FenceCut(s))))

\* the groups of the TOP pattern from the index d of the first digit, the
\* index e after the digits and the index f after the whitespace that follows
TopGroups(s, d, e, f) ==
    IF f = 0
    THEN [ok |-> FALSE, n |-> <<>>, rest |-> <<>>]
    ELSE [ok |-> TRUE, n |-> SubSeq(s, d, e - 1), rest |-> SubSeq(s, f, Len(s))]

TopDigits(s, d, e) == TopGroups(s, d, e, MatchRun(s, e, "s"))

TopNumber(s, d) == TopDigits(s, d, MatchRun(s, d, "d"))

\* re.match(r"(?is)^\s*select\s+top\s+(\d+)\s+(.*)$", s) on the stripped s:
\* [ok, n, rest]
TopMatch(s) ==
    TopNumber(s, MatchRun(s, MatchWord(s, MatchRun(s, MatchWord(s, 1, "select"), "s"),
                                       "top"), "s"))

\* lines 24-29: the rewrite, given the match m
TopRewrite(s, m) ==
    IF m.ok THEN LimitAppended(<<"SELECT", " ">> \o m.rest, m.n) ELSE s

\* step 1 of _normalize_sqlite: SELECT TOP N ... -> SELECT ... LIMIT N
TopToLimit(s) == TopRewrite(s, TopMatch(s))

\* lines 39-45: the matches removed, the bound of the first match appended
\* unless a LIMIT clause is found in what is left
KeepFirstLimit(s, first) ==
    LimitAppended(Strip(StripFinalSemi(RemoveLimits(s))),
                  \* re.search(r"\d+", first.group(0)): the digits of the match
                  SubSeq(s, RunEnd(s, first + 1, "s") + 1, LimitEnd(s, first)))

\* the de-duplication entered already for a single LIMIT clause
DedupLimit_FromOne(s) ==
    IF Cardinality(LimitStarts(s)) > 0 THEN KeepFirstLimit(s, Min(LimitStarts(s))) ELSE s

\* step 4 of _normalize_sqlite: de-duplicate LIMIT, keeping the first bound
DedupLimit(s) ==
    IF Cardinality(LimitStarts(s)) > 1 THEN KeepFirstLimit(s, Min(LimitStarts(s))) ELSE s

_normalize_sqlite(q) ==
    LET s1 == TopToLimit(Strip(q))
        s2 == SubWord(s1, "ilike", "LIKE")
        s3 == SubWord(s2, "true", "1")
        s4 == SubWord(s3, "false", "0")
    IN  DedupLimit(s4)

----------------------------------------------------------------------------
(* Input texts.  Build(heads, items, n): a head followed by at most n      *)
(* items.                                                                  *)

RECURSIVE Build(_, _, _)
Build(heads, items, n) ==
    IF n = 0 THEN heads
    ELSE heads \cup Build({h \o i : h \in heads, i \in items}, items, n - 1)

MaxTokItems == 3
MaxLimitItems == 6
MaxTopItems == 3
MaxDialectItems == 3
MaxFenceItems == 4

\* statements with denylisted words in every position and before every separator
TokTexts ==
    Build({<<"select">>, <<"SELECT">>, <<"drop">>},
          {<<" ", "x">>, <<" ", "drop">>, <<" ", "last", "_", "update">>, <<" ">>,
           <<"\t">>, <<"\n">>, <<";">>, <<"(">>, <<"DROP">>},
          MaxTokItems)

\* statements with LIMIT words, LIMIT clauses and numbers
LimitTexts ==
    Build({<<"select">>},
          {<<" ", "limit">>, <<" ", "limit", " ", "1">>, <<" ", "2">>},
          MaxLimitItems)

\* statements with the vendor TOP form
TopTexts ==
    Build({<<"select">>, <<"SELECT">>},
          {<<" ", "top", " ", "5">>, <<"\t", "TOP", "\n", "3">>, <<" ", "x">>,
           <<" ", "limit", " ", "7">>, <<" ", "drop">>, <<";">>},
          MaxTopItems)

\* statements with ILIKE, TRUE / FALSE, and a LIMIT with or without a number
DialectTexts ==
    Build({<<"select", " ", "x">>},
          {<<" ", "ILIKE">>, <<" ", "true">>, <<"_", "FALSE">>, <<" ", "Limit">>,
           <<" ", "limit", " ", "9">>, <<" ", "y">>, <<" ">>},
          MaxDialectItems)

\* completions wrapped in code fences
FenceTexts ==
    Build({<<>>},
          {<<"<fence>">>, <<"sql">>, <<"\n">>, <<"select", " ", "x">>, <<";">>},
          MaxFenceItems)

SqlTexts == TokTexts \cup LimitTexts \cup TopTexts \cup DialectTexts \cup FenceTexts

----------------------------------------------------------------------------
(* Values shared by the specifications.                                    *)

\* Python's None where a text is expected
None == <<"<None>">>

NoRet == [kind |-> "none", fn |-> "", val |-> <<>>]
Return(fn, v) == [kind |-> "return", fn |-> fn, val |-> v]
Raise(fn, exc) == [kind |-> "raise", fn |-> fn, val |-> exc]
NoShow == [kind |-> "none", val |-> <<>>]

ImportError == <<"ImportError">>
TransportError == <<"TransportError">>
NoLLMError == <<"RuntimeError", " ", "No", " ", "LLM", " ", "available">>
NotReadOnlyError == <<"ValueError", " ", "Model", " ", "returned", " ", "non", " ", "read", "-", "only", " ", "SQL">>
OnlySelectError == <<"ValueError", " ", "Only", " ", "read", "-", "only", " ", "SELECT">>

Ollamas == BOOLEAN
OpenAIs == {"nokey", "noclient", "ok"}

\* what a completion backend does with one request: it raises (network error,
\* timeout) or replies with a text
Raises == [kind |-> "raise", val |-> TransportError]
Reply(t) == [kind |-> "reply", val |-> t]

\* one completion request: the function that issued it, the backend, the outcome
Call(fn, backend, o) == [fn |-> fn, backend |-> backend, outcome |-> o]

----------------------------------------------------------------------------
(* app/brain/router.py                                                     *)

crm_db == <<"crm", "_", "db">>
external_10k == <<"external", "_", "1", "0", "k">>
external_news == <<"external", "_", "new", "s">>
offtopic == <<"offtopic">>
Intents == {crm_db, external_10k, external_news, offtopic}

CRM_WORDS ==
    {<<"account">>, <<"account", "s">>, <<"opportunity">>, <<"opportunities">>,
     <<"engagement">>, <<"engagement", "s">>, <<"ae">>,
     <<"account", " ", "executive">>, <<"stage">>, <<"pipeline">>,
     <<"close", " ", "date">>, <<"won">>, <<"lost">>, <<"product">>,
     <<"line", " ", "item">>}

NEWS_WORDS ==
    {<<"new", "s">>, <<"headline">>, <<"headline", "s">>, <<"press">>,
     <<"press", " ", "release">>, <<"article">>, <<"coverage">>, <<"latest">>,
     <<"recent">>, <<"what", "'", "s", " ", "new">>, <<"update">>,
     <<"update", "s">>, <<"today">>, <<"breaking">>}

K10K_WORDS ==
    {<<"1", "0", "k">>, <<"1", "0", "-", "k">>, <<"annual", " ", "report">>,
     <<"form", " ", "1", "0", "-", "k">>, <<"risk", " ", "factors">>,
     <<"md", "&", "a">>, <<"management", " ", "discussion">>,
     <<"sec", " ", "filing">>, <<"sec", " ", "filing", "s">>, <<"filing">>,
     <<"filing", "s">>}

\* any(w in q for w in words)
AnyIn(words, q) == \E w \in words : Contains(q, w)

\* q = (question or "").strip().lower()
Normalized(qn) == Lower(Strip(IF qn = None THEN <<>> ELSE qn))

\* the gate with the news list tried before the filing list
KeywordGate_NewsFirst(q) ==
    IF AnyIn(NEWS_WORDS, q) THEN external_news
    ELSE IF AnyIn(K10K_WORDS, q) THEN external_10k
    ELSE IF AnyIn(CRM_WORDS, q) THEN crm_db
    ELSE None

\* the gate with the CRM list tried before the news list
KeywordGate_CrmFirst(q) ==
    IF AnyIn(K10K_WORDS, q) THEN external_10k
    ELSE IF AnyIn(CRM_WORDS, q) THEN crm_db
    ELSE IF AnyIn(NEWS_WORDS, q) THEN external_news
    ELSE None

\* the gate with the CRM list tried first
KeywordGate_CrmTop(q) ==
    IF AnyIn(CRM_WORDS, q) THEN crm_db
    ELSE IF AnyIn(K10K_WORDS, q) THEN external_10k
    ELSE IF AnyIn(NEWS_WORDS, q) THEN external_news
    ELSE None

\* lines 36-44: the keyword gate; None when no list matches
KeywordGate(q) ==
    IF AnyIn(K10K_WORDS, q) THEN external_10k
    ELSE IF AnyIn(NEWS_WORDS, q) THEN external_news
    ELSE IF AnyIn(CRM_WORDS, q) THEN crm_db
    ELSE None

\* a default that is not the database intent
DefaultIntent_Offtopic == offtopic

\* line 76
DefaultIntent == crm_db

\* label = content.strip().lower(); a reply without content raises inside the try
LabelOf(o) ==
    IF o.kind = "reply" /\ o.val # None /\ Lower(Strip(o.val)) \in Intents
    THEN Lower(Strip(o.val)) ELSE None

\* the replies a backend gives to the classification request
LabelReplies ==
    {offtopic, external_news, external_10k, crm_db,
     <<" ", "OFFTOPIC", "\n">>, <<"offtopic", ".">>, <<"database">>, <<>>, None}

LabelOutcomes == {Raises} \cup {Reply(t) : t \in LabelReplies}

\* the gate's match not returned: the backends are asked for every question
ClassifyGate_NoReturn ==
    /\ pc = "classify"
    /\ pc' = "classify_ollama"
    /\ UNCHANGED <<question, ollama, openai, limit, route, sql, e1, executed, calls, ret, shown, db, session_name>>

\* lines 33-44
ClassifyGate ==
    /\ pc = "classify"
    /\ LET hit == KeywordGate(Normalized(question))
       IN  IF hit # None
           THEN /\ route' = hit
                /\ ret' = Return("classify_intent", hit)
                /\ pc' = "classified"
           ELSE /\ pc' = "classify_ollama"
                /\ UNCHANGED <<route, ret>>
    /\ UNCHANGED <<question, ollama, openai, limit, sql, e1, executed, calls, shown, db, session_name>>

\* lines 49-58: the local backend
ClassifyOllama ==
    /\ pc = "classify_ollama"
    /\ IF ~ollama
       THEN /\ pc' = "classify_openai"
            /\ UNCHANGED <<route, ret, calls>>
       ELSE \E o \in LabelOutcomes :
            /\ calls' = Append(calls, Call("classify_intent", "ollama", o))
            /\ IF LabelOf(o) # None
               THEN /\ route' = LabelOf(o)
                    /\ ret' = Return("classify_intent", LabelOf(o))
                    /\ pc' = "classified"
               ELSE /\ pc' = "classify_openai"
                    /\ UNCHANGED <<route, ret>>
    /\ UNCHANGED <<question, ollama, openai, limit, sql, e1, executed, shown, db, session_name>>

\* lines 60-76: the hosted backend, then the default
ClassifyOpenAI ==
    /\ pc = "classify_openai"
    /\ CASE openai = "nokey" ->
              /\ route' = DefaultIntent
              /\ ret' = Return("classify_intent", DefaultIntent)
              /\ pc' = "classified"
              /\ UNCHANGED calls
         [] openai = "noclient" ->
              \* _use_openai() is called outside the try: the error leaves the call
              /\ ret' = Raise("classify_intent", ImportError)
              /\ pc' = "classify_raised"
              /\ UNCHANGED <<route, calls>>
         [] OTHER ->
              \E o \in LabelOutcomes :
              /\ calls' = Append(calls, Call("classify_intent", "openai", o))
              /\ LET label == IF LabelOf(o) # None THEN LabelOf(o) ELSE DefaultIntent
                 IN  /\ route' = label
                     /\ ret' = Return("classify_intent", label)
              /\ pc' = "classified"
    /\ UNCHANGED <<question, ollama, openai, limit, sql, e1, executed, shown, db, session_name>>

MaxQItems == 3

\* questions: phrases of the three lists, alone, inside longer words, in
\* upper case, next to each other
Questions ==
    Build({<<>>},
          {<<" ">>, <<"hello">>, <<"1", "0", "-", "K">>, <<"annual", " ", "report">>,
           <<"report">>, <<"NEW", "S">>, <<"account">>, <<"mich", "ae", "l">>},
          MaxQItems)
    \cup {None}

InitIntent ==
    /\ pc = "classify"
    /\ question \in Questions
    /\ ollama \in Ollamas /\ openai \in OpenAIs
    /\ limit = default_limit /\ route = None /\ sql = <<>> /\ e1 = <<>>
    /\ executed = <<>> /\ calls = <<>> /\ ret = NoRet /\ shown = NoShow
    /\ db = None /\ session_name = None

NextIntent == ClassifyGate \/ ClassifyOllama \/ ClassifyOpenAI

SpecIntent == InitIntent /\ [][NextIntent]_vars

----------------------------------------------------------------------------
(* app/llm/router.py: generate_sql_from_nl and repair_sql_with_error, one  *)
(* step per backend; streamlit_app.py: run_readonly_sql and the crm_db     *)
(* branch of the "Go" handler.                                             *)

\* sql = _strip_fences(content); sql = _normalize_sqlite(sql)
Cleaned(content) == _normalize_sqlite(_strip_fences(content))

\* the completions a backend gives to a synthesis or repair request
SqlReplies ==
    {<<"select", " ", "x">>,
     <<"SELECT", " ", "TOP", " ", "5", " ", "x">>,
     <<"<fence>", "sql", "\n", "select", " ", "x", " ", "limit", " ", "5", ";", "\n", "<fence>">>,
     <<"drop", " ", "table", " ", "x">>,
     <<"select", " ", "x", ";", "drop", "\t", "table", " ", "x">>,
     <<"select", " ", "x", ";", " ", "drop">>,
     <<"select", " ", "top", " ", "5", " ", "top", " ", "3", " ", "x">>,
     <<"select", " ", "limit", " ", "limit", " ", "1", " ", "2",
       " ", "limit", " ", "limit", " ", "3", " ", "4">>}

SqlOutcomes == {Raises} \cup {Reply(t) : t \in SqlReplies}

\* lines 112-113, 128-129, 153-154 and 170-171: the read-only check of the
\* cleaned reply; None stands for the ValueError of generate_sql_from_nl and
\* is the value repair_sql_with_error returns
Checked(q) == IF ~_is_read_only(q) THEN None ELSE _ensure_limit(q)

\* lines 110-113 and 126-129: the reply of a backend to the synthesis request
Synthesized(content) == Checked(Cleaned(content))

\* lines 151-154 and 168-171: the reply of a backend to the repair request
Repaired(content) == Checked(Cleaned(content))

\* both, evaluated once per reply
SynthesizedOf == [t \in SqlReplies |-> Synthesized(t)]
RepairedOf == [t \in SqlReplies |-> Repaired(t)]

\* the messages of a failed pd.read_sql_query
DbErrors == {<<"no", " ", "such", " ", "column">>, <<"syntax", " ", "error">>}

\* lines 105-115 of generate_sql_from_nl: the local backend
GenOllama ==
    /\ pc = "gen_ollama"
    /\ IF ~ollama
       THEN /\ pc' = "gen_openai"
            /\ UNCHANGED <<sql, ret, calls>>
       ELSE \E o \in SqlOutcomes :
            /\ calls' = Append(calls, Call("generate_sql_from_nl", "ollama", o))
            \* r: what lines 109-113 yield, None for an exception inside the try
            /\ \E r \in {IF o.kind = "reply" THEN SynthesizedOf[o.val] ELSE None} :
               IF r # None
               THEN /\ sql' = r
                    /\ ret' = Return("generate_sql_from_nl", r)
                    /\ pc' = "run1"
               ELSE \* a transport error or the ValueError of line 112: except, pass
                    /\ pc' = "gen_openai"
                    /\ UNCHANGED <<sql, ret>>
    /\ UNCHANGED <<question, ollama, openai, limit, route, e1, executed, shown, db, session_name>>

\* an exception leaves generate_sql_from_nl: the handler's except (lines 235-236)
GenRaise(exc) ==
    /\ ret' = Raise("generate_sql_from_nl", exc)
    /\ shown' = [kind |-> "error", val |-> exc]
    /\ pc' = "done"
    /\ UNCHANGED sql

\* lines 117-130 of generate_sql_from_nl: the hosted backend
GenOpenAI ==
    /\ pc = "gen_openai"
    /\ CASE openai = "nokey" -> GenRaise(NoLLMError) /\ UNCHANGED calls
         [] openai = "noclient" -> GenRaise(ImportError) /\ UNCHANGED calls
         [] OTHER ->
              \E o \in SqlOutcomes :
              /\ calls' = Append(calls, Call("generate_sql_from_nl", "openai", o))
              /\ IF o.kind = "raise" THEN GenRaise(o.val)
                 ELSE \E r \in {SynthesizedOf[o.val]} :
                      IF r = None THEN GenRaise(NotReadOnlyError)
                      ELSE /\ sql' = r
                           /\ ret' = Return("generate_sql_from_nl", r)
                           /\ pc' = "run1"
                           /\ UNCHANGED shown
    /\ UNCHANGED <<question, ollama, openai, limit, route, e1, executed, db, session_name>>

forbidden_run ==
    {<<"insert", " ">>, <<"update", " ">>, <<"delete", " ">>, <<"drop", " ">>,
     <<"alter", " ">>, <<"create", " ">>, <<"truncate", " ">>, <<"replace", " ">>,
     <<"attach", " ">>, <<"pragma", " ">>, <<"vacuum", " ">>, <<"reindex", " ">>}

\* run_readonly_sql up to the call of pd.read_sql_query:
\* [ok |-> FALSE] for the ValueError, else the statement handed over
run_readonly_sql(q, lim) ==
    LET s0 == RStripSemi(Strip(q))
        low == Lower(s0)
    IN  IF ~StartsWith(low, <<"select">>) \/ \E tok \in forbidden_run : Contains(low, tok)
        THEN [ok |-> FALSE, stmt |-> <<>>]
        ELSE [ok |-> TRUE,
              stmt |-> IF ~HasLimit(s0) THEN s0 \o <<" ", "LIMIT", " ">> \o lim ELSE s0]

\* lines 196-199: the first execution attempt
Run1 ==
    /\ pc = "run1"
    /\ \E r \in {run_readonly_sql(sql, limit)} :
           IF ~r.ok
           THEN /\ e1' = OnlySelectError
                /\ pc' = "repair"
                /\ UNCHANGED <<executed, shown>>
           ELSE /\ executed' = Append(executed, r.stmt)
                /\ \/ /\ shown' = [kind |-> "rows", val |-> r.stmt]
                      /\ pc' = "done"
                      /\ UNCHANGED e1
                   \/ \E e \in DbErrors :
                      /\ e1' = e
                      /\ pc' = "repair"
                      /\ UNCHANGED shown
    /\ UNCHANGED <<question, ollama, openai, limit, route, sql, calls, ret, db, session_name>>

\* lines 132-136 of repair_sql_with_error: the normalization pass
RepairCheap ==
    /\ pc = "repair"
    /\ \E norm \in {_normalize_sqlite(sql)} :
           IF norm # sql /\ _is_read_only(norm)
           THEN /\ ret' = Return("repair_sql_with_error", _ensure_limit(norm))
                /\ pc' = "repaired"
           ELSE /\ pc' = "repair_ollama"
                /\ UNCHANGED ret
    /\ UNCHANGED <<question, ollama, openai, limit, route, sql, e1, executed, calls, shown, db, session_name>>

\* lines 146-156 of repair_sql_with_error: the local backend
RepairOllama ==
    /\ pc = "repair_ollama"
    /\ IF ~ollama
       THEN /\ pc' = "repair_openai"
            /\ UNCHANGED <<ret, calls>>
       ELSE \E o \in SqlOutcomes :
            /\ calls' = Append(calls, Call("repair_sql_with_error", "ollama", o))
            /\ IF o.kind = "reply"
               THEN /\ ret' = Return("repair_sql_with_error", RepairedOf[o.val])
                    /\ pc' = "repaired"
               ELSE /\ pc' = "repair_openai"
                    /\ UNCHANGED ret
    /\ UNCHANGED <<question, ollama, openai, limit, route, sql, e1, executed, shown, db, session_name>>

\* lines 158-174 of repair_sql_with_error: the hosted backend
RepairOpenAI ==
    /\ pc = "repair_openai"
    /\ CASE openai = "nokey" ->
              /\ ret' = Return("repair_sql_with_error", None)
              /\ UNCHANGED calls
         [] openai = "noclient" ->
              \* _use_openai() is called outside the try: the error leaves the call
              /\ ret' = Raise("repair_sql_with_error", ImportError)
              /\ UNCHANGED calls
         [] OTHER ->
              \E o \in SqlOutcomes :
              /\ calls' = Append(calls, Call("repair_sql_with_error", "openai", o))
              /\ ret' = Return("repair_sql_with_error",
                               IF o.kind = "reply" THEN RepairedOf[o.val] ELSE None)
    /\ pc' = "repaired"
    /\ UNCHANGED <<question, ollama, openai, limit, route, sql, e1, executed, shown, db, session_name>>

\* the handler with a failed second execution handed to the repair again
Run2_Retry ==
    /\ pc = "repaired"
    /\ IF ret.kind = "raise"
       THEN /\ pc' = "done" /\ shown' = [kind |-> "error", val |-> ret.val]
            /\ UNCHANGED <<sql, executed>>
       ELSE IF ret.val = None
       THEN \* if not fixed: raise
            /\ pc' = "done" /\ shown' = [kind |-> "error", val |-> e1]
            /\ UNCHANGED <<sql, executed>>
       ELSE \E r \in {run_readonly_sql(ret.val, limit)} :
                IF ~r.ok
                THEN /\ pc' = "done" /\ shown' = [kind |-> "error", val |-> OnlySelectError]
                     /\ UNCHANGED <<sql, executed>>
                ELSE /\ executed' = Append(executed, r.stmt)
                     /\ \/ /\ sql' = ret.val
                           /\ shown' = [kind |-> "rows", val |-> r.stmt]
                           /\ pc' = "done"
                        \/ \E e \in DbErrors :
                           /\ sql' = ret.val
                           /\ pc' = "repair"
                           /\ UNCHANGED shown
    /\ UNCHANGED <<question, ollama, openai, limit, route, e1, calls, ret, db, session_name>>

\* lines 200-204 and 235-236: after the repair, the second execution attempt
Run2 ==
    /\ pc = "repaired"
    /\ pc' = "done"
    /\ IF ret.kind = "raise"
       THEN /\ shown' = [kind |-> "error", val |-> ret.val]
            /\ UNCHANGED <<sql, executed>>
       ELSE IF ret.val = None
       THEN \* if not fixed: raise
            /\ shown' = [kind |-> "error", val |-> e1]
            /\ UNCHANGED <<sql, executed>>
       ELSE \E r \in {run_readonly_sql(ret.val, limit)} :
                IF ~r.ok
                THEN /\ shown' = [kind |-> "error", val |-> OnlySelectError]
                     /\ UNCHANGED <<sql, executed>>
                ELSE /\ executed' = Append(executed, r.stmt)
                     /\ \/ /\ sql' = ret.val
                           /\ shown' = [kind |-> "rows", val |-> r.stmt]
                        \/ \E e \in DbErrors :
                           /\ shown' = [kind |-> "error", val |-> e]
                           /\ UNCHANGED sql
    /\ UNCHANGED <<question, ollama, openai, limit, route, e1, calls, ret, db, session_name>>

\* lines 170-190: "Go" with the route forced or classified
Go ==
    /\ pc = "go"
    /\ \E route_override \in {"Auto", "CRM DB", "10-K", "News"} :
          CASE route_override = "CRM DB" -> route' = crm_db /\ pc' = "classified"
            [] route_override = "10-K" -> route' = external_10k /\ pc' = "classified"
            [] route_override = "News" -> route' = external_news /\ pc' = "classified"
            [] OTHER -> pc' = "classify" /\ UNCHANGED route
    /\ UNCHANGED <<question, ollama, openai, limit, sql, e1, executed, calls, ret, shown, db, session_name>>

\* lines 186-192: the route is known, or classify_intent raised
Dispatch ==
    /\ pc \in {"classified", "classify_raised"}
    /\ IF pc = "classify_raised"
       THEN /\ shown' = [kind |-> "uncaught", val |-> ret.val]
            /\ pc' = "done"
       ELSE IF route = crm_db
       THEN /\ pc' = "gen_ollama"
            /\ UNCHANGED shown
       ELSE /\ shown' = [kind |-> "external", val |-> route]
            /\ pc' = "done"
    /\ UNCHANGED <<question, ollama, openai, limit, route, sql, e1, executed, calls, ret, db, session_name>>

\* effective_q of the handler: stripped and not empty
GoQuestions == {<<"hello">>, <<"mich", "ae", "l">>, <<"NEW", "S">>}

\* the slider: 50 to 5000
MaxRows == {<<"5", "0">>, <<"1", "0", "0", "0">>}

Init ==
    /\ pc = "go"
    /\ question \in GoQuestions
    /\ ollama \in Ollamas /\ openai \in OpenAIs
    /\ limit \in MaxRows
    /\ route = None /\ sql = <<>> /\ e1 = <<>>
    /\ executed = <<>> /\ calls = <<>> /\ ret = NoRet /\ shown = NoShow
    /\ db = None /\ session_name = None

Next ==
    \/ Go \/ ClassifyGate \/ ClassifyOllama \/ ClassifyOpenAI \/ Dispatch
    \/ GenOllama \/ GenOpenAI \/ Run1
    \/ RepairCheap \/ RepairOllama \/ RepairOpenAI \/ Run2

Spec == Init /\ [][Next]_vars

----------------------------------------------------------------------------
(* SpecRepair: repair_sql_with_error called on any failed query.           *)

InitRepair ==
    /\ pc = "repair"
    /\ sql \in TopTexts \cup DialectTexts
    /\ e1 \in DbErrors
    /\ ollama \in Ollamas /\ openai \in OpenAIs
    /\ question = <<"hello">> /\ limit = default_limit /\ route = crm_db
    /\ executed = <<>> /\ calls = <<>> /\ ret = NoRet /\ shown = NoShow
    /\ db = None /\ session_name = None

NextRepair == RepairCheap \/ RepairOllama \/ RepairOpenAI

SpecRepair == InitRepair /\ [][NextRepair]_vars

----------------------------------------------------------------------------
(* SpecFn: the pure helpers of app/llm/router.py applied to one text.      *)

InitFn ==
    /\ pc = "unit"
    /\ sql \in SqlTexts
    /\ question = <<>> /\ ollama = FALSE /\ openai = "nokey"
    /\ limit = default_limit /\ route = None /\ e1 = <<>>
    /\ executed = <<>> /\ calls = <<>> /\ ret = NoRet /\ shown = NoShow
    /\ db = None /\ session_name = None

Returns(fn, v) ==
    /\ pc = "unit"
    /\ pc' = "returned"
    /\ ret' = Return(fn, v)
    /\ UNCHANGED <<question, ollama, openai, limit, route, sql, e1, executed, calls, shown, db, session_name>>

CallIsReadOnly == Returns("_is_read_only", _is_read_only(sql))
CallEnsureLimit == Returns("_ensure_limit", _ensure_limit(sql))
CallStripFences == Returns("_strip_fences", _strip_fences(sql))
CallNormalize == Returns("_normalize_sqlite", _normalize_sqlite(sql))

NextFn == CallIsReadOnly \/ CallEnsureLimit \/ CallStripFences \/ CallNormalize

SpecFn == InitFn /\ [][NextFn]_vars

----------------------------------------------------------------------------
(* The read-only rule and the row-limit count as the specification states  *)
(* them, for the properties below.                                         *)

DenyWords ==
    {"insert", "update", "delete", "drop", "alter", "create", "truncate",
     "replace", "attach", "pragma", "vacuum", "reindex"}

\* the trimmed, lowercased statement begins with the read token
StartsWithSelect(q) == StartsWith(Lower(Strip(q)), <<"select">>)

\* a denylisted word stands in q as a whole word, whatever follows it
HasDenyToken(q) ==
    \E i \in 1..Len(q) :
        LowerAtom(q[i]) \in DenyWords /\ BoundaryLeft(q, i) /\ BoundaryRight(q, i)

FailsReadOnlyRule(q) == ~StartsWithSelect(q) \/ HasDenyToken(q)

\* the number of row-limit clauses LIMIT <n> of q
LimitCount(q) == Cardinality(LimitStarts(q))

\* the completion requests of function fn to a backend
CallsOf(fn, backend) ==
    {i \in 1..Len(calls) : calls[i].fn = fn /\ calls[i].backend = backend}

----------------------------------------------------------------------------
(* SpecPair: two requests in one process (a multi-request host), each one   *)
(* call of classify_intent, generate_sql_from_nl or repair_sql_with_error.  *)
(* The arguments and locals of a call are its own: pc, question, sql, calls *)
(* and ret hold one value per request; ollama and openai are the process's  *)
(* configuration.                                                           *)

Requests == {"a", "b"}

PairQuestions == {<<"hello">>, <<"NEW", "S">>}
PairBadSql == {<<"select", " ", "x", " ", "LIMIT", " ", "5">>,
               <<"SELECT", " ", "TOP", " ", "5", " ", "x">>}
PairLabelOutcomes == {Raises, Reply(offtopic), Reply(<<"database">>)}
PairSqlOutcomes == {Raises, Reply(<<"select", " ", "x">>),
                    Reply(<<"drop", " ", "table", " ", "x">>)}

\* request r goes to position p
Goes(r, p) == pc' = [pc EXCEPT ![r] = p]
\* request r ends with result v
Ends(r, v) == ret' = [ret EXCEPT ![r] = v] /\ Goes(r, "returned")
\* request r issued a completion request
Asked(r, fn, backend, o) == calls' = [calls EXCEPT ![r] = Append(@, Call(fn, backend, o))]

\* the normalized question kept in a module-level variable that every
\* request writes: the gate of request r may read another request's question
PairClassifyGate_SharedQuestion(r) ==
    /\ pc[r] = "classify"
    /\ \E w \in Requests : \E hit \in {KeywordGate(Normalized(question[w]))} :
           IF hit # None
           THEN Ends(r, Return("classify_intent", hit))
           ELSE Goes(r, "classify_ollama") /\ UNCHANGED ret
    /\ UNCHANGED <<question, ollama, openai, limit, route, sql, e1, executed, calls, shown, db, session_name>>

\* brain/router.py lines 33-44, for request r
PairClassifyGate(r) ==
    /\ pc[r] = "classify"
    /\ \E hit \in {KeywordGate(Normalized(question[r]))} :
           IF hit # None
           THEN Ends(r, Return("classify_intent", hit))
           ELSE Goes(r, "classify_ollama") /\ UNCHANGED ret
    /\ UNCHANGED <<question, ollama, openai, limit, route, sql, e1, executed, calls, shown, db, session_name>>

\* brain/router.py lines 49-58, for request r
PairClassifyOllama(r) ==
    /\ pc[r] = "classify_ollama"
    /\ IF ~ollama
       THEN Goes(r, "classify_openai") /\ UNCHANGED <<ret, calls>>
       ELSE \E o \in PairLabelOutcomes :
            /\ Asked(r, "classify_intent", "ollama", o)
            /\ IF LabelOf(o) # None
               THEN Ends(r, Return("classify_intent", LabelOf(o)))
               ELSE Goes(r, "classify_openai") /\ UNCHANGED ret
    /\ UNCHANGED <<question, ollama, openai, limit, route, sql, e1, executed, shown, db, session_name>>

\* brain/router.py lines 60-76, for request r
PairClassifyOpenAI(r) ==
    /\ pc[r] = "classify_openai"
    /\ CASE openai = "nokey" ->
              Ends(r, Return("classify_intent", DefaultIntent)) /\ UNCHANGED calls
         [] openai = "noclient" ->
              Ends(r, Raise("classify_intent", ImportError)) /\ UNCHANGED calls
         [] OTHER ->
              \E o \in PairLabelOutcomes :
              /\ Asked(r, "classify_intent", "openai", o)
              /\ Ends(r, Return("classify_intent",
                                IF LabelOf(o) # None THEN LabelOf(o) ELSE DefaultIntent))
    /\ UNCHANGED <<question, ollama, openai, limit, route, sql, e1, executed, shown, db, session_name>>

\* llm/router.py lines 105-115, for request r
PairGenOllama(r) ==
    /\ pc[r] = "gen_ollama"
    /\ IF ~ollama
       THEN Goes(r, "gen_openai") /\ UNCHANGED <<ret, calls>>
       ELSE \E o \in PairSqlOutcomes :
            /\ Asked(r, "generate_sql_from_nl", "ollama", o)
            /\ \E v \in {IF o.kind = "reply" THEN SynthesizedOf[o.val] ELSE None} :
               IF v # None
               THEN Ends(r, Return("generate_sql_from_nl", v))
               ELSE Goes(r, "gen_openai") /\ UNCHANGED ret
    /\ UNCHANGED <<question, ollama, openai, limit, route, sql, e1, executed, shown, db, session_name>>

\* llm/router.py lines 117-130, for request r
PairGenOpenAI(r) ==
    /\ pc[r] = "gen_openai"
    /\ CASE openai = "nokey" ->
              Ends(r, Raise("generate_sql_from_nl", NoLLMError)) /\ UNCHANGED calls
         [] openai = "noclient" ->
              Ends(r, Raise("generate_sql_from_nl", ImportError)) /\ UNCHANGED calls
         [] OTHER ->
              \E o \in PairSqlOutcomes :
              /\ Asked(r, "generate_sql_from_nl", "openai", o)
              /\ IF o.kind = "raise"
                 THEN Ends(r, Raise("generate_sql_from_nl", o.val))
                 ELSE \E v \in {SynthesizedOf[o.val]} :
                      IF v = None
                      THEN Ends(r, Raise("generate_sql_from_nl", NotReadOnlyError))
                      ELSE Ends(r, Return("generate_sql_from_nl", v))
    /\ UNCHANGED <<question, ollama, openai, limit, route, sql, e1, executed, shown, db, session_name>>

\* llm/router.py lines 132-136, for request r
PairRepairCheap(r) ==
    /\ pc[r] = "repair"
    /\ \E norm \in {_normalize_sqlite(sql[r])} :
           IF norm # sql[r] /\ _is_read_only(norm)
           THEN Ends(r, Return("repair_sql_with_error", _ensure_limit(norm)))
           ELSE Goes(r, "repair_ollama") /\ UNCHANGED ret
    /\ UNCHANGED <<question, ollama, openai, limit, route, sql, e1, executed, calls, shown, db, session_name>>

\* llm/router.py lines 146-156, for request r
PairRepairOllama(r) ==
    /\ pc[r] = "repair_ollama"
    /\ IF ~ollama
       THEN Goes(r, "repair_openai") /\ UNCHANGED <<ret, calls>>
       ELSE \E o \in PairSqlOutcomes :
            /\ Asked(r, "repair_sql_with_error", "ollama", o)
            /\ IF o.kind = "reply"
               THEN Ends(r, Return("repair_sql_with_error", RepairedOf[o.val]))
               ELSE Goes(r, "repair_openai") /\ UNCHANGED ret
    /\ UNCHANGED <<question, ollama, openai, limit, route, sql, e1, executed, shown, db, session_name>>

\* llm/router.py lines 158-174, for request r
PairRepairOpenAI(r) ==
    /\ pc[r] = "repair_openai"
    /\ CASE openai = "nokey" ->
              Ends(r, Return("repair_sql_with_error", None)) /\ UNCHANGED calls
         [] openai = "noclient" ->
              Ends(r, Raise("repair_sql_with_error", ImportError)) /\ UNCHANGED calls
         [] OTHER ->
              \E o \in PairSqlOutcomes :
              /\ Asked(r, "repair_sql_with_error", "openai", o)
              /\ Ends(r, Return("repair_sql_with_error",
                                IF o.kind = "reply" THEN RepairedOf[o.val] ELSE None))
    /\ UNCHANGED <<question, ollama, openai, limit, route, sql, e1, executed, shown, db, session_name>>

\* each request is one call: of classify_intent or generate_sql_from_nl on a
\* question, or of repair_sql_with_error on a failed query
InitPair ==
    /\ pc \in [Requests -> {"classify", "gen_ollama", "repair"}]
    /\ question \in [Requests -> PairQuestions]
    /\ sql \in [Requests -> PairBadSql \cup {<<>>}]
    /\ \A r \in Requests : (sql[r] # <<>>) <=> (pc[r] = "repair")
    /\ calls = [r \in Requests |-> <<>>]
    /\ ret = [r \in Requests |-> NoRet]
    /\ ollama \in Ollamas /\ openai \in OpenAIs
    /\ limit = default_limit /\ route = None /\ e1 = <<"syntax", " ", "error">>
    /\ executed = <<>> /\ shown = NoShow
    /\ db = None /\ session_name = None

\* the host runs the steps of the two requests in any order
NextPair ==
    \E r \in Requests :
        \/ PairClassifyGate(r) \/ PairClassifyOllama(r) \/ PairClassifyOpenAI(r)
        \/ PairGenOllama(r) \/ PairGenOpenAI(r)
        \/ PairRepairCheap(r) \/ PairRepairOllama(r) \/ PairRepairOpenAI(r)

SpecPair == InitPair /\ [][NextPair]_vars

----------------------------------------------------------------------------
(* SpecStore: app/sessions/store.py over the SQLite file of get_conn. Each  *)
(* store function opens its own connection and runs one transaction;        *)
(* get_or_create_session runs two (the lookup, then the insert). Callers    *)
(* are the runs of the page for different users.                            *)

Callers == {"u1", "u2"}
Names == {<<"s">>, <<"t">>}

MaxSessions == 2
MaxTurns == 1
MaxFeedback == 1

IntegrityError == <<"IntegrityError">>

\* the tables after ensure_tables (lines 11-43); fk is PRAGMA foreign_keys of a
\* new connection: get_conn does not set it, so it is the default of the
\* SQLite library (off unless the library was built with it on)
EmptyDb(fk) ==
    [Sessions |-> {}, SessionTurns |-> {}, AppFeedback |-> {},
     seq_sessions |-> 0, seq_turns |-> 0, seq_feedback |-> 0, foreign_keys |-> fk]

\* SELECT id FROM Sessions WHERE name = ?
SessionIdsByName(name) == {r.id : r \in {x \in db.Sessions : x.name = name}}

\* caller c returns to the page with result v
Done(c, v) == ret' = [ret EXCEPT ![c] = v] /\ pc' = [pc EXCEPT ![c] = "idle"]

store_frame == <<question, ollama, openai, limit, route, sql, e1, executed, calls, shown>>

\* lines 67-70 with 56-59: get_or_create_session up to the lookup's answer
GetOrCreateLookup(c) ==
    /\ pc[c] = "idle"
    /\ \E name \in Names :
          /\ session_name' = [session_name EXCEPT ![c] = name]
          /\ \E found \in {SessionIdsByName(name)} :
                IF found # {}
                THEN Done(c, Return("get_or_create_session", CHOOSE i \in found : TRUE))
                ELSE /\ pc' = [pc EXCEPT ![c] = "create_session"]
                     /\ ret' = [ret EXCEPT ![c] = NoRet]
    /\ UNCHANGED <<db, store_frame>>

\* lines 71 with 61-65: the INSERT of create_session; name is UNIQUE (line 16)
CreateSession(c) ==
    /\ pc[c] = "create_session"
    /\ IF SessionIdsByName(session_name[c]) # {}
       THEN /\ Done(c, Raise("get_or_create_session", IntegrityError))
            /\ UNCHANGED db
       ELSE /\ db.seq_sessions < MaxSessions
            /\ db' = [db EXCEPT !.seq_sessions = @ + 1,
                                !.Sessions = @ \cup {[id |-> db.seq_sessions + 1,
                                                      name |-> session_name[c]]}]
            /\ Done(c, Return("get_or_create_session", db.seq_sessions + 1))
    /\ UNCHANGED <<session_name, store_frame>>

\* lines 73-75
RenameSession(c) ==
    /\ pc[c] = "idle"
    /\ \E session_id \in 1..MaxSessions, new_name \in Names :
          IF \E r \in db.Sessions : r.id = session_id
             /\ \E o \in db.Sessions : o.id # session_id /\ o.name = new_name
          THEN /\ Done(c, Raise("rename_session", IntegrityError))
               /\ UNCHANGED db
          ELSE /\ db' = [db EXCEPT !.Sessions =
                            {IF r.id = session_id THEN [r EXCEPT !.name = new_name] ELSE r
                               : r \in @}]
               /\ Done(c, Return("rename_session", None))
    /\ UNCHANGED <<session_name, store_frame>>

\* the rows that ON DELETE CASCADE (lines 31 and 41) removes with session sid
CascadeTurns(sid) == {t \in db.SessionTurns : t.session_id = sid}
CascadeFeedback(sid) ==
    {f \in db.AppFeedback : \E t \in CascadeTurns(sid) : f.turn_id = t.id}

\* lines 77-79: the cascade acts only with foreign keys switched on
DeleteSession(c) ==
    /\ pc[c] = "idle"
    /\ \E session_id \in 1..MaxSessions :
          db' = [db EXCEPT
                   !.Sessions = {r \in @ : r.id # session_id},
                   !.SessionTurns =
                       IF db.foreign_keys /\ \E r \in db.Sessions : r.id = session_id
                       THEN @ \ CascadeTurns(session_id) ELSE @,
                   !.AppFeedback =
                       IF db.foreign_keys /\ \E r \in db.Sessions : r.id = session_id
                       THEN @ \ CascadeFeedback(session_id) ELSE @]
    /\ Done(c, Return("delete_session", None))
    /\ UNCHANGED <<session_name, store_frame>>

\* lines 81-90
SaveTurn(c) ==
    /\ pc[c] = "idle"
    /\ db.seq_turns < MaxTurns
    /\ \E session_id \in 1..MaxSessions :
          IF db.foreign_keys /\ ~\E r \in db.Sessions : r.id = session_id
          THEN /\ Done(c, Raise("save_turn", IntegrityError))
               /\ UNCHANGED db
          ELSE /\ db' = [db EXCEPT !.seq_turns = @ + 1,
                                   !.SessionTurns = @ \cup {[id |-> db.seq_turns + 1,
                                                             session_id |-> session_id]}]
               /\ Done(c, Return("save_turn", db.seq_turns + 1))
    /\ UNCHANGED <<session_name, store_frame>>

\* lines 101-108
SaveFeedbackForTurn(c) ==
    /\ pc[c] = "idle"
    /\ db.seq_feedback < MaxFeedback
    /\ \E turn_id \in 1..MaxTurns :
          IF db.foreign_keys /\ ~\E t \in db.SessionTurns : t.id = turn_id
          THEN /\ Done(c, Raise("save_feedback_for_turn", IntegrityError))
               /\ UNCHANGED db
          ELSE /\ db' = [db EXCEPT !.seq_feedback = @ + 1,
                                   !.AppFeedback = @ \cup {[id |-> db.seq_feedback + 1,
                                                            turn_id |-> turn_id]}]
               /\ Done(c, Return("save_feedback_for_turn", db.seq_feedback + 1))
    /\ UNCHANGED <<session_name, store_frame>>

\* lines 92-99: the ids of the turns of a session
ListTurns(c) ==
    /\ pc[c] = "idle"
    /\ \E session_id \in 1..MaxSessions :
          Done(c, Return("list_turns",
                         [session_id |-> session_id,
                          turns |-> {t.id : t \in {x \in db.SessionTurns :
                                                     x.session_id = session_id}}]))
    /\ UNCHANGED <<db, session_name, store_frame>>

\* streamlit_app.py line 35: ensure_tables() has run, no caller is in a call
InitStore ==
    /\ pc = [c \in Callers |-> "idle"]
    /\ ret = [c \in Callers |-> NoRet]
    /\ session_name = [c \in Callers |-> None]
    /\ db \in {EmptyDb(fk) : fk \in BOOLEAN}
    /\ question = <<>> /\ ollama = FALSE /\ openai = "nokey"
    /\ limit = default_limit /\ route = None /\ sql = <<>> /\ e1 = <<>>
    /\ executed = <<>> /\ calls = <<>> /\ shown = NoShow

\* the callers' transactions in any order
NextStore ==
    \E c \in Callers :
        \/ GetOrCreateLookup(c) \/ CreateSession(c)
        \/ RenameSession(c) \/ DeleteSession(c)
        \/ SaveTurn(c) \/ SaveFeedbackForTurn(c) \/ ListTurns(c)

SpecStore == InitStore /\ [][NextStore]_vars

----------------------------------------------------------------------------
(* Properties.                                                             *)

\* C1: in the CRM path no statement that fails the read-only rule (it does
\* not start with select, or it contains a denylisted token) is handed to
\* the database, neither the synthesized nor the repaired query.
C1_NoRejectedStatementExecuted ==
    \A i \in 1..Len(executed) : ~FailsReadOnlyRule(executed[i])

\* C2: every query returned by generate_sql_from_nl or repair_sql_with_error,
\* and every statement executed, holds exactly one row-limit clause.
C2_ExactlyOneLimit ==
    /\ \A i \in 1..Len(executed) : LimitCount(executed[i]) = 1
    /\ (ret.kind = "return" /\ ret.fn \in {"generate_sql_from_nl", "repair_sql_with_error"}
        /\ ret.val # None) => LimitCount(ret.val) = 1

\* C3: classify_intent never raises and returns one of the four intents.
C3_ClassifyIntentTotal ==
    /\ pc # "classify_raised"
    /\ ret.fn = "classify_intent" => (ret.kind = "return" /\ ret.val \in Intents)

\* C4: a question with a filing phrase is classified external_10k, whatever
\* the backends are and whatever else the question contains.
C4_FilingPhraseWins ==
    (AnyIn(K10K_WORDS, Normalized(question)) /\ pc # "classify")
        => (pc = "classified" /\ ret = Return("classify_intent", external_10k)
            /\ route = external_10k)

C4_Witness ==
    /\ pc = "classified" /\ route = external_10k
    /\ AnyIn(K10K_WORDS, Normalized(question))
    /\ AnyIn(NEWS_WORDS, Normalized(question))
    /\ ollama /\ openai = "noclient"

\* C5: a question with a news phrase and no filing phrase is classified
\* external_news, whatever the backends are, also with CRM vocabulary in it.
C5_NewsPhraseWins ==
    (AnyIn(NEWS_WORDS, Normalized(question)) /\ ~AnyIn(K10K_WORDS, Normalized(question))
     /\ pc # "classify")
        => (pc = "classified" /\ ret = Return("classify_intent", external_news)
            /\ route = external_news)

C5_Witness ==
    /\ pc = "classified" /\ route = external_news
    /\ AnyIn(NEWS_WORDS, Normalized(question))
    /\ AnyIn(CRM_WORDS, Normalized(question))
    /\ ~AnyIn(K10K_WORDS, Normalized(question))
    /\ ollama /\ openai = "ok"

\* C6: a question that matches no list, with no backend configured (local
\* backend not importable, hosted key unset), is classified crm_db.
C6_DefaultBias ==
    (~AnyIn(K10K_WORDS, Normalized(question)) /\ ~AnyIn(NEWS_WORDS, Normalized(question))
     /\ ~AnyIn(CRM_WORDS, Normalized(question)) /\ ~ollama /\ openai = "nokey"
     /\ pc \notin {"classify", "classify_ollama", "classify_openai"})
        => (pc = "classified" /\ ret = Return("classify_intent", crm_db)
            /\ route = crm_db /\ calls = <<>>)

C6_Witness ==
    /\ pc = "classified" /\ route = crm_db /\ calls = <<>>
    /\ ~AnyIn(K10K_WORDS \cup NEWS_WORDS \cup CRM_WORDS, Normalized(question))
    /\ question \notin {None, <<>>}
    /\ ~ollama /\ openai = "nokey"

\* C7: _is_read_only is false for every statement that does not start with
\* select and for every statement that contains a denylisted token, wherever
\* the token stands and whatever follows it.
C7_RejectsEveryDenylisted ==
    (pc = "returned" /\ ret.fn = "_is_read_only" /\ FailsReadOnlyRule(sql))
        => ret.val = FALSE

\* the local backend replied to the synthesis request and the reply failed
\* the read-only check
LocalSynthesisRejected ==
    \E i \in CallsOf("generate_sql_from_nl", "ollama") :
        calls[i].outcome.kind = "reply" /\ ~_is_read_only(Cleaned(calls[i].outcome.val))

\* C8: when the local backend's output fails the read-only check,
\* generate_sql_from_nl raises at once: the hosted backend is not consulted
\* and no query is returned.
C8_NoFallThroughAfterRejection ==
    LocalSynthesisRejected
        => /\ CallsOf("generate_sql_from_nl", "openai") = {}
           /\ ret.fn = "generate_sql_from_nl" => ret.kind = "raise"

\* the replies the backends gave to the synthesis request
SynthesisReplies ==
    {calls[i].outcome.val : i \in {j \in 1..Len(calls) :
        calls[j].fn = "generate_sql_from_nl" /\ calls[j].outcome.kind = "reply"}}

\* C9: generate_sql_from_nl raises the no-backend error when no backend is
\* configured and only when no backend gave a completion, and it raises the
\* validation error when at least one backend replied and every reply failed
\* the read-only check.
C9_DistinctErrors ==
    (ret.fn = "generate_sql_from_nl" /\ ret.kind = "raise")
        => /\ (~ollama /\ openai = "nokey") => ret.val = NoLLMError
           /\ ret.val = NoLLMError => SynthesisReplies = {}
           /\ (SynthesisReplies # {}
               /\ \A t \in SynthesisReplies : ~_is_read_only(Cleaned(t)))
              => ret.val = NotReadOnlyError

\* C10: for a failed query of the form SELECT TOP <n> <rest> that is
\* otherwise read-only, and any error message, repair_sql_with_error returns
\* a read-only statement without a TOP prefix and with a row-limit clause,
\* and issues no completion request.
C10_RepairShortCircuit ==
    (TopMatch(Strip(sql)).ok /\ ~FailsReadOnlyRule(sql))
        => /\ calls = <<>>
           /\ pc \in {"repair", "repaired"}
           /\ pc = "repaired"
              => /\ ret.kind = "return" /\ ret.val # None
                 /\ ~TopMatch(Strip(ret.val)).ok
                 /\ _is_read_only(ret.val)
                 /\ HasLimit(ret.val)

\* the bounds of the row-limit clauses LIMIT <n> of q
LimitBounds(q) ==
    {SubSeq(q, RunEnd(q, i + 1, "s") + 1, LimitEnd(q, i)) : i \in LimitStarts(q)}

\* the bounds a statement carries itself: those of its LIMIT <n> clauses and
\* the <n> of a leading SELECT TOP <n>
OwnBounds(q) ==
    LimitBounds(q) \cup {m.n : m \in {x \in {TopMatch(Strip(q))} : x.ok}}

\* the bounds a returned query may have, given the statement it was made from
AllowedBounds(q) == IF OwnBounds(q) = {} THEN {default_limit} ELSE OwnBounds(q)

\* the reply of the last completion request, without its code fences
LastReplyStatement == _strip_fences(calls[Len(calls)].outcome.val)

\* C11: the bound of every query returned by generate_sql_from_nl or
\* repair_sql_with_error is a bound the input statement carried itself (its
\* LIMIT <n> or TOP <n>), or the default 1000 when it carried none.
C11_BoundIsOwnOrDefault ==
    /\ (pc = "run1" /\ ret.kind = "return")
          => LimitBounds(ret.val) \subseteq AllowedBounds(LastReplyStatement)
    /\ (pc = "repaired" /\ ret.kind = "return" /\ ret.val # None)
          => LimitBounds(ret.val) \subseteq
                AllowedBounds(IF CallsOf("repair_sql_with_error", "ollama")
                                   \cup CallsOf("repair_sql_with_error", "openai") = {}
                              THEN sql ELSE LastReplyStatement)

\* q has none of the vendor constructs the normalization rewrites: no leading
\* SELECT TOP <n>, no word ILIKE, TRUE or FALSE
NoDialect(q) ==
    /\ ~TopMatch(Strip(q)).ok
    /\ ~\E i \in 1..Len(q) :
          /\ LowerAtom(q[i]) \in {"ilike", "true", "false"}
          /\ BoundaryLeft(q, i) /\ BoundaryRight(q, i)

\* _normalize_sqlite has been applied to a statement with exactly one
\* row-limit clause and no vendor construct
NormalizedOnce ==
    /\ pc = "returned" /\ ret.fn = "_normalize_sqlite"
    /\ LimitCount(sql) = 1 /\ NoDialect(sql)

\* C12 as stated: _normalize_sqlite returns every statement with exactly one
\* row-limit clause and no vendor construct unchanged.
C12_NormalizedUnchanged == NormalizedOnce => ret.val = sql

\* C12, amended: _normalize_sqlite returns every statement with exactly one
\* row-limit clause, no vendor construct and no leading or trailing
\* whitespace unchanged.
C12_TrimmedNormalizedUnchanged == (NormalizedOnce /\ Strip(sql) = sql) => ret.val = sql

C12_Witness ==
    /\ NormalizedOnce /\ Strip(sql) = sql /\ ret.val = sql
    /\ Contains(sql, <<"_", "FALSE">>) /\ Contains(sql, <<"Limit">>)

\* s.endswith(p)
EndsWith(s, p) == Len(s) >= Len(p) /\ SubSeq(s, Len(s) - Len(p) + 1, Len(s)) = p

\* C13: for a statement SELECT TOP <n> <rest> whose <rest> has no row-limit
\* clause, _normalize_sqlite returns a statement that ends with LIMIT <n>, the
\* same n, and has no TOP form any more; it is SELECT <rest> LIMIT <n> when
\* <rest> holds no other vendor construct.
C13_TopBecomesLimit ==
    (pc = "returned" /\ ret.fn = "_normalize_sqlite")
        => \A m \in {x \in {TopMatch(Strip(sql))} : x.ok /\ ~HasLimit(x.rest)} :
              /\ EndsWith(ret.val, <<" ", "LIMIT", " ">> \o m.n)
              /\ ~TopMatch(ret.val).ok
              /\ NoDialect(m.rest)
                    => ret.val = <<"SELECT", " ">> \o m.rest \o <<" ", "LIMIT", " ">> \o m.n

\* C14: repair_sql_with_error never raises: it returns a read-only, bounded
\* query or none, and none whenever a model reply fails the read-only check.
C14_RepairNeverRaises ==
    pc = "repaired"
        => /\ ret.kind = "return"
           /\ ret.val = None \/ (_is_read_only(ret.val) /\ HasLimit(ret.val))
           /\ \A i \in CallsOf("repair_sql_with_error", "ollama")
                        \cup CallsOf("repair_sql_with_error", "openai") :
                 (calls[i].outcome.kind = "reply"
                  /\ ~_is_read_only(Cleaned(calls[i].outcome.val)))
                    => ret.val = None

\* C15: when the first execution failed and no repaired query was executed
\* with success, the error shown is the error of the first execution.
C15_OriginalErrorSurfaced ==
    (pc = "done" /\ e1 # <<>> /\ shown.kind # "rows")
        => shown = [kind |-> "error", val |-> e1]

\* the position of a control point in the chain of the handler
ChainRank ==
    [go |-> 0, classify |-> 1, classify_ollama |-> 2, classify_openai |-> 3,
     classified |-> 4, classify_raised |-> 4, gen_ollama |-> 5, gen_openai |-> 6,
     run1 |-> 7, repair |-> 8, repair_ollama |-> 9, repair_openai |-> 10,
     repaired |-> 11, done |-> 12]

SqlSteps == {"generate_sql_from_nl", "repair_sql_with_error"}

\* at most two executions, the second one final; per step at most one
\* completion request to each backend, the local one first; repair requests
\* only after a failed first execution
ChainBounded ==
    /\ Len(executed) <= 2
    /\ Len(executed) = 2 => pc = "done"
    /\ \A fn \in SqlSteps :
          /\ Cardinality(CallsOf(fn, "ollama")) <= 1
          /\ Cardinality(CallsOf(fn, "openai")) <= 1
          /\ \A i \in CallsOf(fn, "ollama"), j \in CallsOf(fn, "openai") : i < j
    /\ (CallsOf("repair_sql_with_error", "ollama")
          \cup CallsOf("repair_sql_with_error", "openai")) # {} => e1 # <<>>

\* every step moves forward in the chain (no step is taken twice, nothing
\* follows the second execution), and the repair starts only from a failed
\* first execution
ChainStep ==
    /\ ChainRank[pc'] > ChainRank[pc]
    /\ pc' = "repair" => (pc = "run1" /\ e1' # <<>>)
    /\ ChainBounded'

\* each of the two steps issues at most one completion request in all
OneRequestPerStep ==
    \A fn \in SqlSteps : Cardinality(CallsOf(fn, "ollama") \cup CallsOf(fn, "openai")) <= 1

\* C16 as stated: the CRM path is a bounded chain without recursion
\* (generate once, at most two executions, at most one repair and only after
\* a failed first execution, nothing after the second execution), and the
\* synthesis and the repair each make at most one completion request.
C16_BoundedChainOneRequest == [][ChainStep /\ OneRequestPerStep']_vars

\* C16, amended: the same bounded chain, where the synthesis and the repair
\* each make at most one completion request to each backend, the local
\* backend first (at most two requests per step).
C16_BoundedChain == [][ChainStep]_vars

C16_Witness ==
    /\ pc = "done" /\ Len(executed) = 2 /\ shown.kind = "error"
    /\ \A fn \in SqlSteps :
          CallsOf(fn, "ollama") # {} /\ CallsOf(fn, "openai") # {}

\* the synthesis request to a backend ended with a transport error
SynthesisRequestRaised(backend) ==
    \E i \in CallsOf("generate_sql_from_nl", backend) : calls[i].outcome.kind = "raise"

\* C17: in generate_sql_from_nl a transport error of the local backend falls
\* through to the hosted backend, and a transport error of the hosted backend
\* ends the call with the no-backend error, never with the raw exception.
C17_TransportErrorIsUnavailable ==
    /\ (SynthesisRequestRaised("ollama") /\ pc # "gen_openai" /\ openai = "ok")
          => CallsOf("generate_sql_from_nl", "openai") # {}
    /\ SynthesisRequestRaised("openai")
          => ret = Raise("generate_sql_from_nl", NoLLMError)

\* classify_intent has returned for an empty, None or whitespace-only question
EmptyQuestionClassified ==
    Normalized(question) = <<>> /\ pc = "classified" /\ ret.fn = "classify_intent"

\* the valid labels the backends replied to the classification request
LabelsReplied == {LabelOf(calls[i].outcome) : i \in 1..Len(calls)} \ {None}

\* C18 as stated: for an empty, None or whitespace-only question no list
\* matches, the tie-break is consulted and the result is crm_db.
C18_EmptyQuestionIsCrm ==
    EmptyQuestionClassified
        => /\ ollama => CallsOf("classify_intent", "ollama") # {}
           /\ ret = Return("classify_intent", crm_db)

\* C18, amended: for an empty, None or whitespace-only question no list
\* matches and the tie-break is consulted; the value returned is a valid
\* label replied by a backend, or crm_db when no backend replied one (so
\* crm_db when no backend is configured).
C18_EmptyQuestionTieBreak ==
    EmptyQuestionClassified
        => /\ ollama => CallsOf("classify_intent", "ollama") # {}
           /\ ret.kind = "return"
           /\ IF LabelsReplied = {} THEN ret.val = crm_db ELSE ret.val \in LabelsReplied

C18_Witness ==
    /\ EmptyQuestionClassified /\ question = <<" ", " ">>
    /\ Len(calls) = 2 /\ LabelsReplied = {} /\ ret.val = crm_db

\* the lists of which the question contains a phrase
ListsMatched ==
    {l \in {"filing", "news", "crm"} :
        AnyIn(CASE l = "filing" -> K10K_WORDS [] l = "news" -> NEWS_WORDS [] OTHER -> CRM_WORDS,
              Normalized(question))}

\* C19: the gate applies the priority filing > news > CRM: a question with
\* phrases of one or several lists gets the intent of the highest list that
\* matches, from the gate alone (no backend is asked); crm_db comes from the
\* gate only when no filing and no news phrase is present.
C19_GatePriority ==
    (ListsMatched # {} /\ pc # "classify")
        => /\ pc = "classified" /\ calls = <<>>
           /\ ret = Return("classify_intent",
                           IF "filing" \in ListsMatched THEN external_10k
                           ELSE IF "news" \in ListsMatched THEN external_news
                           ELSE crm_db)

C19_Witness ==
    /\ ListsMatched = {"filing", "news", "crm"}
    /\ pc = "classified" /\ ret = Return("classify_intent", external_10k)
    /\ ollama /\ openai = "ok"

\* the valid labels a backend replied to the classification request
LabelsOf(backend) ==
    {LabelOf(calls[i].outcome) : i \in CallsOf("classify_intent", backend)} \ {None}

\* C20: when no keyword matches, classify_intent returns the label of the
\* first backend, local then hosted, that replies a valid label (trimmed,
\* lowercased); a local backend that raises or replies anything else does not
\* keep the hosted backend from being asked; with no valid label from any
\* backend the result is crm_db.
C20_FirstValidLabel ==
    (ListsMatched = {} /\ pc \notin {"classify", "classify_ollama", "classify_openai"})
        => /\ pc = "classified" /\ ret.kind = "return"
           /\ IF LabelsOf("ollama") # {}
              THEN ret.val \in LabelsOf("ollama") /\ CallsOf("classify_intent", "openai") = {}
              ELSE /\ IF LabelsOf("openai") # {}
                      THEN ret.val \in LabelsOf("openai")
                      ELSE ret.val = crm_db
                   /\ openai = "ok" => CallsOf("classify_intent", "openai") # {}
           /\ ollama => CallsOf("classify_intent", "ollama") # {}

\* C21: when a keyword list matches, classify_intent returns at once: the
\* only step taken is the gate's return, no backend is probed and no
\* completion request is issued.
C21_GateReturnsAtOnce ==
    [][ListsMatched # {}
         => /\ pc = "classify" /\ pc' = "classified"
            /\ calls' = <<>>
            /\ ret'.kind = "return" /\ ret'.val \in Intents \ {offtopic}]_vars

C21_Witness ==
    /\ ListsMatched = {"crm"} /\ pc = "classified" /\ calls = <<>>
    /\ ret = Return("classify_intent", crm_db)
    /\ ollama /\ openai = "noclient"

\* the bound of the first row-limit clause of q
FirstBound(q) ==
    SubSeq(q, RunEnd(q, Min(LimitStarts(q)) + 1, "s") + 1, LimitEnd(q, Min(LimitStarts(q))))

\* q without its row-limit clauses, whitespace and semicolons
Body(q) == Pick(RemoveLimits(q), {k \in 1..Len(RemoveLimits(q)) :
                   ~IsSpace(RemoveLimits(q)[k]) /\ RemoveLimits(q)[k] # ";"})

\* _normalize_sqlite has been applied to a statement with two or more
\* row-limit clauses
NormalizedMany ==
    /\ pc = "returned" /\ ret.fn = "_normalize_sqlite"
    /\ LimitCount(sql) >= 2

\* C22: for a statement with two or more row-limit clauses _normalize_sqlite
\* returns a statement with exactly one row-limit clause, at its end, with
\* the bound of the first clause of the input, and the same text otherwise
\* (for a statement without vendor construct).
C22_CollapsedToFirstBound ==
    NormalizedMany
        => /\ LimitCount(ret.val) = 1
           /\ EndsWith(ret.val, <<" ", "LIMIT", " ">> \o FirstBound(sql))
           /\ NoDialect(sql) => Body(ret.val) = Body(sql)

LocalEvent(fn, ev) ==
    \E i \in CallsOf(fn, "ollama") :
        CASE ev = "raises" -> calls[i].outcome.kind = "raise"
          [] ev = "rejected" -> /\ calls[i].outcome.kind = "reply"
                                /\ ~_is_read_only(Cleaned(calls[i].outcome.val))
          [] OTHER -> /\ calls[i].outcome.kind = "reply"
                      /\ _is_read_only(Cleaned(calls[i].outcome.val))

\* function fn went on to the hosted backend
ConsultedHosted(fn) == CallsOf(fn, "openai") # {}

\* C24: repair_sql_with_error handles the backends as generate_sql_from_nl
\* does: with the hosted backend available, after the same event at the local
\* backend both stop or both consult the hosted backend.
C24_SameBackendDecisions ==
    (pc = "done" /\ openai = "ok")
        => \A ev \in {"raises", "rejected", "accepted"} :
              (/\ LocalEvent("generate_sql_from_nl", ev)
               /\ LocalEvent("repair_sql_with_error", ev))
                  => (ConsultedHosted("generate_sql_from_nl")
                        <=> ConsultedHosted("repair_sql_with_error"))

\* the first position of cs in the set good
FirstOf(cs, good) == Min({i \in 1..Len(cs) : i \in good})

\* the result of classify_intent(q) run alone with the backend outcomes cs
AloneClassify(q, cs) ==
    LET valid == {i \in 1..Len(cs) : LabelOf(cs[i].outcome) # None}
    IN  IF KeywordGate(Normalized(q)) # None
        THEN Return("classify_intent", KeywordGate(Normalized(q)))
        ELSE IF valid # {}
        THEN Return("classify_intent", LabelOf(cs[FirstOf(cs, valid)].outcome))
        ELSE IF openai = "noclient" THEN Raise("classify_intent", ImportError)
        ELSE Return("classify_intent", crm_db)

\* the result of generate_sql_from_nl run alone with the backend outcomes cs
AloneGenerate(cs) ==
    LET good == {i \in 1..Len(cs) : /\ cs[i].outcome.kind = "reply"
                                      /\ _is_read_only(Cleaned(cs[i].outcome.val))}
    IN  IF good # {}
        THEN Return("generate_sql_from_nl",
                    _ensure_limit(Cleaned(cs[FirstOf(cs, good)].outcome.val)))
        ELSE Raise("generate_sql_from_nl",
                   CASE openai = "nokey" -> NoLLMError
                     [] openai = "noclient" -> ImportError
                     [] OTHER -> IF cs[Len(cs)].outcome.kind = "raise"
                                 THEN TransportError ELSE NotReadOnlyError)

\* the result of repair_sql_with_error(bad) run alone with the outcomes cs
AloneRepair(bad, cs) ==
    LET replies == {i \in 1..Len(cs) : cs[i].outcome.kind = "reply"}
    IN  IF _normalize_sqlite(bad) # bad /\ _is_read_only(_normalize_sqlite(bad))
        THEN Return("repair_sql_with_error", _ensure_limit(_normalize_sqlite(bad)))
        ELSE IF replies # {}
        THEN Return("repair_sql_with_error",
                    Checked(Cleaned(cs[FirstOf(cs, replies)].outcome.val)))
        ELSE IF openai = "noclient" THEN Raise("repair_sql_with_error", ImportError)
        ELSE Return("repair_sql_with_error", None)

\* C25: two requests handled concurrently do not interfere: in every
\* interleaving of their steps each finished request has the result its call
\* gives when run alone with the same backend replies, and the completion
\* requests recorded for it are its own.
C25_NoInterference ==
    \A r \in Requests :
        pc[r] = "returned"
            => /\ \A i \in 1..Len(calls[r]) : calls[r][i].fn = ret[r].fn
               /\ ret[r] = CASE ret[r].fn = "classify_intent" ->
                                    AloneClassify(question[r], calls[r])
                              [] ret[r].fn = "generate_sql_from_nl" ->
                                    AloneGenerate(calls[r])
                              [] OTHER -> AloneRepair(sql[r], calls[r])

C25_Witness ==
    /\ pc["a"] = "returned" /\ pc["b"] = "returned"
    /\ ret["a"] = Return("classify_intent", external_news)
    /\ question["b"] = <<"hello">>
    /\ ret["b"] = Return("classify_intent", offtopic)
    /\ Len(calls["b"]) = 2

\* repair_sql_with_error returned a query without any completion request:
\* the normalization pass of lines 134-136 gave the result
CheapPathTaken ==
    /\ ret.kind = "return" /\ ret.fn = "repair_sql_with_error" /\ ret.val # None
    /\ CallsOf("repair_sql_with_error", "ollama") = {}
    /\ CallsOf("repair_sql_with_error", "openai") = {}

\* C26: _normalize_sqlite is idempotent; hence a query returned by
\* generate_sql_from_nl is a fixed point of the normalization and, when its
\* execution fails, repair_sql_with_error never takes the cheap path.
C26_NormalizeIdempotent ==
    /\ (pc = "returned" /\ ret.fn = "_normalize_sqlite")
          => _normalize_sqlite(ret.val) = ret.val
    /\ (ret.kind = "return" /\ ret.fn = "generate_sql_from_nl")
          => _normalize_sqlite(ret.val) = ret.val
    /\ ~CheapPathTaken

\* q holds a defect the normalization is there to fix: a vendor construct
\* or more than one row-limit clause
HasDefect(q) == ~NoDialect(q) \/ LimitCount(q) > 1

C28_ReturnedQueryRunsUnchanged ==
    (ret.kind = "return" /\ ret.val # None
     /\ ret.fn \in {"generate_sql_from_nl", "repair_sql_with_error"})
        => \A r \in {run_readonly_sql(ret.val, limit)} : r.ok /\ r.stmt = ret.val

\* no two Sessions rows with the same name
UniqueNames == \A a, b \in db.Sessions : a.name = b.name => a = b

\* caller c ends a get_or_create_session call in this step
EndsGetOrCreate(c) ==
    /\ ret'[c].fn = "get_or_create_session"
    /\ \/ pc[c] = "create_session" /\ pc'[c] = "idle"
       \/ /\ pc[c] = "idle"
          /\ \/ ret[c].fn # ret'[c].fn \/ ret[c].kind # ret'[c].kind
             \/ ret[c].val # ret'[c].val \/ session_name[c] # session_name'[c]

\* C29: whatever get_or_create_session, rename_session and delete_session
\* calls are made, also interleaved by two callers for the same new name,
\* no two sessions have the same name, and every get_or_create_session call
\* ends without error with the id of the session of that name.
C29_OneSessionPerName ==
    [][/\ UniqueNames'
       /\ \A c \in Callers :
             EndsGetOrCreate(c)
                => /\ ret'[c].kind = "return"
                   /\ [id |-> ret'[c].val, name |-> session_name'[c]] \in db'.Sessions]_vars

\* the sessions and turns that were created and exist no longer
DeletedSessions == {i \in 1..db.seq_sessions : ~\E r \in db.Sessions : r.id = i}
DeletedTurns == {i \in 1..db.seq_turns : ~\E t \in db.SessionTurns : t.id = i}

\* C30: whatever save_turn, save_feedback_for_turn and delete_session calls
\* are made, no turn refers to a session that exists no longer and no
\* feedback to a turn that exists no longer: delete_session removes the
\* session's turns and their feedback, so list_turns of it is empty.
C30_NoOrphanRows ==
    /\ \A t \in db.SessionTurns : t.session_id \notin DeletedSessions
    /\ \A f \in db.AppFeedback : f.turn_id \notin DeletedTurns

====
